---- MODULE Spec2Model ----
(***************************************************************************)
(* Repertoire tree of assets/js/acas-repertoire-data.js: RepertoireNode,   *)
(* RepertoireTree (addMove, findNodeByFen, findNodeByMoves, serialize,     *)
(* deserialize, saveToLocalStorage, loadFromLocalStorage) and the script   *)
(* level variable `tree` with the localStorage slot it is saved to.        *)
(*                                                                         *)
(* Objects live in a heap: tree.nodes is the sequence of RepertoireNode    *)
(* objects in order of construction, a node reference is its index, the    *)
(* null reference is Null.  The root of a tree is always the first object  *)
(* its constructor creates, so tree.root is the reference 1.               *)
(***************************************************************************)
EXTENDS Integers, Sequences, FiniteSets, TLC

\* ------------------------------------------------------------------ bounds
\* Largest number of RepertoireNode objects a tree may hold (root included).
MaxNodes == 3

\* Position keys (FEN strings, opaque to the program) and move notations.
\* Neither holds a '_', as no FEN and no move in algebraic notation does.
Keys == {"K0", "K1", "K2", "K3"}
Moves == {"e4", "e5"}

\* The comments the script sets; a node starts with the empty comment.
Comments == {"c"}

\* The default argument rootFen / initialRootFen of the constructor,
\* deserialize and loadFromLocalStorage (the start position).
InitialRootFen == "K0"

\* The literal "root" given to the root node as its move.
RootMove == "root"

\* The null reference (node.parent of the root, a failed addMove).
Null == 0

\* JavaScript null inside a serialized record (parentFen, parentMove).
JsNull == "<null>"

\* ------------------------------------------------------------ RepertoireNode
\* new RepertoireNode(fen, move, parent)
RepertoireNode(fen, move, parent) ==
    [fen |-> fen, move |-> move, parent |-> parent, children |-> <<>>,
     comment |-> "", labels |-> <<>>]

\* addChild as it would be with unshift in place of push.
addChildFirst(nodes, n, c) ==
    [nodes EXCEPT ![n].children = <<c>> \o @]

\* node.addChild(childNode): children.push(childNode)
addChild(nodes, n, c) ==
    [nodes EXCEPT ![n].children = Append(@, c)]

MinOf(S) == CHOOSE x \in S : \A y \in S : x <= y

\* node.findChildByMove(move): the first child whose move is `move`, else
\* undefined (Null).
findChildByMove(nodes, n, move) ==
    LET cs == nodes[n].children
        hit == {i \in 1..Len(cs) : nodes[cs[i]].move = move}
    IN  IF hit = {} THEN Null ELSE cs[MinOf(hit)]

\* ------------------------------------------------------------ RepertoireTree
\* new RepertoireTree(rootFen): the root node and a nodeMap holding it.
RepertoireTree(rootFen) ==
    [nodes |-> <<RepertoireNode(rootFen, RootMove, Null)>>,
     nodeMap |-> (rootFen :> 1)]

\* The root reference of every tree.
Root == 1

\* Map.set(key, value)
MapSet(m, k, v) == (k :> v) @@ m

\* addMove as it would be if it created the missing parent instead of
\* failing: a parentless node for parentFen, then the move below it.
addMoveCreatesParent(t, parentFen, newFen, move) ==
    LET withParent ==
            IF parentFen \in DOMAIN t.nodeMap THEN t
            ELSE [nodes |-> Append(t.nodes, RepertoireNode(parentFen, RootMove, Null)),
                  nodeMap |-> MapSet(t.nodeMap, parentFen, Len(t.nodes) + 1)]
        parentNode == withParent.nodeMap[parentFen]
        existingNode == findChildByMove(withParent.nodes, parentNode, move)
    IN  IF existingNode # Null
        THEN [tree |-> withParent, ret |-> existingNode]
        ELSE LET newNode == Len(withParent.nodes) + 1
                 created == Append(withParent.nodes,
                                   RepertoireNode(newFen, move, parentNode))
             IN  [tree |-> [nodes |-> addChild(created, parentNode, newNode),
                            nodeMap |-> MapSet(withParent.nodeMap, newFen, newNode)],
                  ret |-> newNode]

\* addMove as it would be if a label-key conflict overwrote the existing
\* child's key with newFen and registered it.
addMoveOverwritesChild(t, parentFen, newFen, move) ==
    IF parentFen \notin DOMAIN t.nodeMap
    THEN [tree |-> t, ret |-> Null]
    ELSE LET parentNode == t.nodeMap[parentFen]
             existingNode == findChildByMove(t.nodes, parentNode, move)
         IN  IF existingNode # Null
             THEN [tree |-> [nodes |-> [t.nodes EXCEPT ![existingNode].fen = newFen],
                             nodeMap |-> MapSet(t.nodeMap, newFen, existingNode)],
                   ret |-> existingNode]
             ELSE LET newNode == Len(t.nodes) + 1
                      created == Append(t.nodes,
                                        RepertoireNode(newFen, move, parentNode))
                  IN  [tree |-> [nodes |-> addChild(created, parentNode, newNode),
                                 nodeMap |-> MapSet(t.nodeMap, newFen, newNode)],
                       ret |-> newNode]

\* addMove as it would be if the index kept the first node of a key.
addMoveKeepsFirstEntry(t, parentFen, newFen, move) ==
    IF parentFen \notin DOMAIN t.nodeMap
    THEN [tree |-> t, ret |-> Null]
    ELSE LET parentNode == t.nodeMap[parentFen]
             existingNode == findChildByMove(t.nodes, parentNode, move)
         IN  IF existingNode # Null
             THEN [tree |-> t, ret |-> existingNode]
             ELSE LET newNode == Len(t.nodes) + 1
                      created == Append(t.nodes,
                                        RepertoireNode(newFen, move, parentNode))
                  IN  [tree |-> [nodes |-> addChild(created, parentNode, newNode),
                                 nodeMap |-> IF newFen \in DOMAIN t.nodeMap
                                             THEN t.nodeMap
                                             ELSE MapSet(t.nodeMap, newFen, newNode)],
                       ret |-> newNode]

\* addMove as it would be if it collapsed a transposition: a key the index
\* already holds gets no new node, the indexed node is moved below the
\* parent under the new move.
addMoveReusesNode(t, parentFen, newFen, move) ==
    IF parentFen \notin DOMAIN t.nodeMap
    THEN [tree |-> t, ret |-> Null]
    ELSE LET parentNode == t.nodeMap[parentFen]
             existingNode == findChildByMove(t.nodes, parentNode, move)
         IN  IF existingNode # Null
             THEN [tree |-> t, ret |-> existingNode]
             ELSE IF newFen \in DOMAIN t.nodeMap
             THEN LET node == t.nodeMap[newFen]
                  IN  [tree |-> [t EXCEPT !.nodes =
                                    addChild([@ EXCEPT ![node].parent = parentNode,
                                                       ![node].move = move],
                                             parentNode, node)],
                       ret |-> node]
             ELSE LET newNode == Len(t.nodes) + 1
                      created == Append(t.nodes,
                                        RepertoireNode(newFen, move, parentNode))
                  IN  [tree |-> [nodes |-> addChild(created, parentNode, newNode),
                                 nodeMap |-> MapSet(t.nodeMap, newFen, newNode)],
                       ret |-> newNode]

\* addMove as it would be if, on a move the parent already has with another
\* key, it put a new node for newFen in the place of the existing child.
addMoveReplacesChild(t, parentFen, newFen, move) ==
    IF parentFen \notin DOMAIN t.nodeMap
    THEN [tree |-> t, ret |-> Null]
    ELSE LET parentNode == t.nodeMap[parentFen]
             existingNode == findChildByMove(t.nodes, parentNode, move)
             newNode == Len(t.nodes) + 1
             created == Append(t.nodes, RepertoireNode(newFen, move, parentNode))
         IN  IF existingNode # Null /\ t.nodes[existingNode].fen = newFen
             THEN [tree |-> t, ret |-> existingNode]
             ELSE IF existingNode # Null
             THEN [tree |-> [nodes |-> [created EXCEPT ![parentNode].children =
                                          [i \in 1..Len(@) |->
                                              IF @[i] = existingNode THEN newNode ELSE @[i]]],
                             nodeMap |-> MapSet(t.nodeMap, newFen, newNode)],
                   ret |-> newNode]
             ELSE [tree |-> [nodes |-> addChild(created, parentNode, newNode),
                             nodeMap |-> MapSet(t.nodeMap, newFen, newNode)],
                   ret |-> newNode]

\* tree.addMove(parentFen, newFen, move): the tree afterwards and the value
\* returned (a node reference, or Null).
addMove(t, parentFen, newFen, move) ==
    IF parentFen \notin DOMAIN t.nodeMap
    THEN [tree |-> t, ret |-> Null]
    ELSE LET parentNode == t.nodeMap[parentFen]
             existingNode == findChildByMove(t.nodes, parentNode, move)
         IN  IF existingNode # Null
             THEN [tree |-> t, ret |-> existingNode]
             ELSE LET newNode == Len(t.nodes) + 1
                      created == Append(t.nodes,
                                        RepertoireNode(newFen, move, parentNode))
                  IN  [tree |-> [nodes |-> addChild(created, parentNode, newNode),
                                 nodeMap |-> MapSet(t.nodeMap, newFen, newNode)],
                       ret |-> newNode]

\* tree.findNodeByFen(fen)
findNodeByFen(t, fen) ==
    IF fen \in DOMAIN t.nodeMap THEN t.nodeMap[fen] ELSE Null

RECURSIVE WalkMoves(_, _, _)
WalkMoves(nodes, currentNode, movesSequence) ==
    IF movesSequence = <<>> THEN currentNode
    ELSE LET nextNode == findChildByMove(nodes, currentNode, Head(movesSequence))
         IN  IF nextNode = Null THEN Null
             ELSE WalkMoves(nodes, nextNode, Tail(movesSequence))

RECURSIVE WalkMovesPartial(_, _, _)
WalkMovesPartial(nodes, currentNode, movesSequence) ==
    IF movesSequence = <<>> THEN currentNode
    ELSE LET nextNode == findChildByMove(nodes, currentNode, Head(movesSequence))
         IN  IF nextNode = Null THEN currentNode
             ELSE WalkMovesPartial(nodes, nextNode, Tail(movesSequence))

\* findNodeByMoves as it would be if it returned the node reached so far
\* when a move has no matching child.
findNodeByMovesPartial(t, movesSequence) ==
    WalkMovesPartial(t.nodes, Root, movesSequence)

\* tree.findNodeByMoves(movesSequence)
findNodeByMoves(t, movesSequence) == WalkMoves(t.nodes, Root, movesSequence)

\* -------------------------------------------------------------- strings
\* A JavaScript string handed to JSON.parse or kept in localStorage is one
\* of: the empty string, a text that is no JSON, the JSON text of null, the
\* JSON text of an object that is no array, or the JSON text of an array of
\* records.  JsAbsent is the null that localStorage.getItem returns for a
\* key that was never set.
EmptyString == [kind |-> "empty", recs |-> <<>>]
NotJson == [kind |-> "notjson", recs |-> <<>>]
JsonNullText == [kind |-> "null", recs |-> <<>>]
JsonObjectText == [kind |-> "object", recs |-> <<>>]
JsAbsent == [kind |-> "absent", recs |-> <<>>]

\* JSON.stringify(simplifiedNodes): the text of an array of records.  The
\* records hold only strings, arrays of strings and null, which the JSON
\* text keeps exactly.
JSONstringify(recs) == [kind |-> "array", recs |-> recs]

\* JSON.parse(jsonString): throws SyntaxError on the empty string and on a
\* text that is no JSON; null (coerced to the text "null") parses to null.
JSONparse(s) ==
    CASE s.kind \in {"empty", "notjson"} -> [threw |-> TRUE, kind |-> "none", recs |-> <<>>]
      [] s.kind \in {"null", "absent"}   -> [threw |-> FALSE, kind |-> "null", recs |-> <<>>]
      [] s.kind = "object"               -> [threw |-> FALSE, kind |-> "object", recs |-> <<>>]
      [] OTHER                           -> [threw |-> FALSE, kind |-> "array", recs |-> s.recs]

\* ------------------------------------------------------------- serialize
\* The record pushed onto simplifiedNodes for node n.
SimplifiedNode(nodes, n) ==
    [fen |-> nodes[n].fen,
     move |-> nodes[n].move,
     comment |-> nodes[n].comment,
     labels |-> nodes[n].labels,
     parentFen |-> IF nodes[n].parent # Null THEN nodes[nodes[n].parent].fen ELSE JsNull,
     parentMove |-> IF nodes[n].parent # Null THEN nodes[nodes[n].parent].move ELSE JsNull]

\* node.fen + '_' + node.move
FenMoveKey(fen, move) == fen \o "_" \o move

RECURSIVE SerializeLoop(_, _, _, _)
\* The while loop of serialize: queue, visitedFens, simplifiedNodes.
SerializeLoop(nodes, queue, visitedFens, simplifiedNodes) ==
    IF queue = <<>> THEN simplifiedNodes
    ELSE LET node == Head(queue)
             key == FenMoveKey(nodes[node].fen, nodes[node].move)
         IN  IF key \in visitedFens
             THEN SerializeLoop(nodes, Tail(queue), visitedFens, simplifiedNodes)
             ELSE SerializeLoop(nodes, Tail(queue) \o nodes[node].children,
                                visitedFens \cup {key},
                                Append(simplifiedNodes, SimplifiedNode(nodes, node)))

\* The array serialize builds before JSON.stringify.
SimplifiedNodes(t) == SerializeLoop(t.nodes, <<Root>>, {}, <<>>)

\* tree.serialize()
serialize(t) == JSONstringify(SimplifiedNodes(t))

\* ----------------------------------------------------------- deserialize
\* The search for the root record as it would be if it tested the move alone
\* and took the root record of any position.
FindRootDataAnyKey(recs, initialRootFen) ==
    LET hit == {i \in 1..Len(recs) : recs[i].move = RootMove}
    IN  IF hit = {} THEN 0 ELSE MinOf(hit)

\* simplifiedNodes.find(n => n.move === "root" && n.fen === initialRootFen):
\* the index of the first such record, 0 when there is none.
FindRootData(recs, initialRootFen) ==
    LET hit == {i \in 1..Len(recs) :
                  recs[i].move = RootMove /\ recs[i].fen = initialRootFen}
    IN  IF hit = {} THEN 0 ELSE MinOf(hit)

\* The creation loop's iteration as it would be if it left the comment of
\* the record out of the node it creates.
CreateStepDropsComment(t, data) ==
    IF data.fen = t.nodes[Root].fen /\ data.move = RootMove
    THEN [t EXCEPT !.nodeMap = MapSet(@, data.fen, Root)]
    ELSE IF data.fen \notin DOMAIN t.nodeMap
         THEN LET tempNode == [RepertoireNode(data.fen, data.move, Null)
                                 EXCEPT !.labels = data.labels]
              IN  [nodes |-> Append(t.nodes, tempNode),
                   nodeMap |-> MapSet(t.nodeMap, data.fen, Len(t.nodes) + 1)]
         ELSE t

\* The creation loop's iteration as it would be if a record whose key the
\* index already holds overwrote the comment and labels of that key's node.
CreateStepLastWins(t, data) ==
    IF data.fen = t.nodes[Root].fen /\ data.move = RootMove
    THEN [t EXCEPT !.nodeMap = MapSet(@, data.fen, Root)]
    ELSE IF data.fen \notin DOMAIN t.nodeMap
         THEN LET tempNode == [RepertoireNode(data.fen, data.move, Null)
                                 EXCEPT !.comment = data.comment,
                                        !.labels = data.labels]
              IN  [nodes |-> Append(t.nodes, tempNode),
                   nodeMap |-> MapSet(t.nodeMap, data.fen, Len(t.nodes) + 1)]
         ELSE [t EXCEPT !.nodes[t.nodeMap[data.fen]].comment = data.comment,
                        !.nodes[t.nodeMap[data.fen]].labels = data.labels]

\* One iteration of the loop "Create all nodes and map them".
CreateStep(t, data) ==
    IF data.fen = t.nodes[Root].fen /\ data.move = RootMove
    THEN [t EXCEPT !.nodeMap = MapSet(@, data.fen, Root)]
    ELSE IF data.fen \notin DOMAIN t.nodeMap
         THEN LET tempNode == [RepertoireNode(data.fen, data.move, Null)
                                 EXCEPT !.comment = data.comment,
                                        !.labels = data.labels]
              IN  [nodes |-> Append(t.nodes, tempNode),
                   nodeMap |-> MapSet(t.nodeMap, data.fen, Len(t.nodes) + 1)]
         ELSE t

RECURSIVE CreateLoop(_, _)
CreateLoop(t, recs) ==
    IF recs = <<>> THEN t ELSE CreateLoop(CreateStep(t, Head(recs)), Tail(recs))

\* parentNode.children.some(c => c.fen === childNode.fen && c.move === childNode.move)
HasSameChild(nodes, parentNode, childNode) ==
    \E i \in 1..Len(nodes[parentNode].children) :
        LET c == nodes[parentNode].children[i]
        IN  nodes[c].fen = nodes[childNode].fen /\ nodes[c].move = nodes[childNode].move

\* One iteration of the loop "Link children to parents".
LinkStep(t, data) ==
    IF data.parentFen = JsNull THEN t
    ELSE LET childNode == findNodeByFen(t, data.fen)
             parentNode == findNodeByFen(t, data.parentFen)
         IN  IF childNode # Null /\ parentNode # Null
             THEN IF ~HasSameChild(t.nodes, parentNode, childNode)
                  THEN [t EXCEPT !.nodes =
                          addChild([@ EXCEPT ![childNode].parent = parentNode,
                                             ![childNode].move = data.move],
                                   parentNode, childNode)]
                  ELSE t
             ELSE t

RECURSIVE LinkLoop(_, _)
LinkLoop(t, recs) ==
    IF recs = <<>> THEN t ELSE LinkLoop(LinkStep(t, Head(recs)), Tail(recs))

SeqToSet(s) == {s[i] : i \in 1..Len(s)}

RECURSIVE Closure(_, _)
\* The nodes reachable from the set `seen` through children lists.
Closure(nodes, seen) ==
    LET more == UNION {SeqToSet(nodes[n].children) : n \in seen}
    IN  IF more \subseteq seen THEN seen ELSE Closure(nodes, seen \cup more)

\* The nodes reachable from n through one or more children steps.
Descendants(nodes, n) == Closure(nodes, SeqToSet(nodes[n].children))

\* The nodes reachable from the root through children lists, root included.
Reachable(nodes) == Closure(nodes, {Root})

\* The final while loop of deserialize has no visited set: it pushes every
\* child of every node it shifts, so it ends exactly when no node reachable
\* from the root is its own descendant.  (On a cycle whose nodes have one
\* child each the queue keeps its length and the loop runs for ever.)
RebuildTerminates(nodes) ==
    \A n \in Reachable(nodes) : n \notin Descendants(nodes, n)

\* The final loop as it would be if it did not push the children of the
\* node it shifts: q empties after the root.
RebuildLoopSkipsChildren(nodes, q, nodeMap) ==
    IF q = <<>> THEN nodeMap
    ELSE MapSet(nodeMap, nodes[Head(q)].fen, Head(q))

RECURSIVE RebuildLoop(_, _, _)
\* The final while loop: q, and the nodeMap being refilled.
RebuildLoop(nodes, q, nodeMap) ==
    IF q = <<>> THEN nodeMap
    ELSE LET n == Head(q)
         IN  RebuildLoop(nodes, Tail(q) \o nodes[n].children,
                         MapSet(nodeMap, nodes[n].fen, n))

\* The empty Map left by nodeMap.clear().
EmptyMap == [k \in {} |-> Null]

\* What a call leaves behind it: it returned a tree, it threw, or it never
\* returned.
Returned(t) == [outcome |-> "returned", tree |-> t]
Threw == [outcome |-> "threw", tree |-> RepertoireTree(InitialRootFen)]
Hangs == [outcome |-> "hangs", tree |-> RepertoireTree(InitialRootFen)]

\* RepertoireTree.deserialize(jsonString, initialRootFen)
deserialize(jsonString, initialRootFen) ==
    LET parsed == JSONparse(jsonString)
    IN  IF parsed.threw THEN Threw
        ELSE IF parsed.kind = "null" \/ (parsed.kind = "array" /\ Len(parsed.recs) = 0)
        THEN Returned(RepertoireTree(initialRootFen))
        ELSE IF parsed.kind = "object" THEN Threw  \* .find is not a function
        ELSE LET simplifiedNodes == parsed.recs
                 rootData == FindRootData(simplifiedNodes, initialRootFen)
             IN  IF rootData = 0 THEN Returned(RepertoireTree(initialRootFen))
                 ELSE LET fresh == RepertoireTree(simplifiedNodes[rootData].fen)
                          t0 == [fresh EXCEPT
                                   !.nodes[Root].comment = simplifiedNodes[rootData].comment,
                                   !.nodes[Root].labels = simplifiedNodes[rootData].labels]
                          t1 == CreateLoop(t0, simplifiedNodes)
                          t2 == LinkLoop(t1, simplifiedNodes)
                      IN  IF RebuildTerminates(t2.nodes)
                          THEN Returned([nodes |-> t2.nodes,
                                         nodeMap |-> RebuildLoop(t2.nodes, <<Root>>, EmptyMap)])
                          ELSE Hangs

\* RepertoireTree.loadFromLocalStorage(storageKey, initialRootFen), given the
\* value localStorage holds under storageKey.
loadFromLocalStorage(stored, initialRootFen) ==
    IF stored.kind \notin {"absent", "empty"}
    THEN LET r == deserialize(stored, initialRootFen)
         IN  IF r.outcome = "threw" THEN Returned(RepertoireTree(initialRootFen)) ELSE r
    ELSE Returned(RepertoireTree(initialRootFen))

\* ------------------------------------------------------------ the program
VARIABLES
    tree,    \* the script's variable `tree`: [nodes, nodeMap]
    store,   \* the value localStorage holds under the storage key
    status,  \* "running", or "hung" once a call never returns
    last,    \* the last call made: its name, the kind of text it was given,
             \* the node it returned, how it ended
    built    \* history: TRUE while every node of `tree` was made by the
             \* constructor or by addMove, FALSE once deserialize made it

vars == <<tree, store, status, last, built>>

Call(op, text, ret, outcome) ==
    [op |-> op, text |-> text, ret |-> ret, outcome |-> outcome]

\* Texts another writer may leave under the storage key: the empty string, a
\* text that is no JSON, an array without a root record, and the saved form
\* of a tree that starts from another position.
ForeignTexts ==
    {EmptyString, NotJson,
     JSONstringify(<<[fen |-> "K1", move |-> "e4", comment |-> "", labels |-> <<>>,
                      parentFen |-> "K2", parentMove |-> RootMove]>>),
     serialize(RepertoireTree("K1"))}

\* Malformed texts handed to deserialize directly.
MalformedTexts == {EmptyString, NotJson, JsonObjectText}

\* let tree = RepertoireTree.loadFromLocalStorage("myRepertoire") on a first
\* run, when localStorage holds nothing.
Init ==
    /\ store = JsAbsent
    /\ tree = loadFromLocalStorage(JsAbsent, InitialRootFen).tree
    /\ status = "running"
    /\ last = Call("loadFromLocalStorage", JsAbsent.kind, Null, "returned")
    /\ built = TRUE

\* tree.addMove(parentFen, newFen, move), while the tree holds no more than
\* `limit` nodes.
AddMoveWithin(limit, parentFen, newFen, move) ==
    /\ status = "running"
    /\ LET r == addMove(tree, parentFen, newFen, move)
       IN  /\ Len(r.tree.nodes) <= limit
           /\ tree' = r.tree
           /\ last' = Call("addMove", "", r.ret, "returned")
    /\ UNCHANGED <<store, status, built>>

\* tree.addMove(parentFen, newFen, move)
AddMove(parentFen, newFen, move) == AddMoveWithin(MaxNodes, parentFen, newFen, move)

\* const node = tree.addMove(...); if (node) { node.comment = comment; }
SetComment(comment) ==
    /\ status = "running"
    /\ last.op = "addMove"
    /\ last.ret # Null
    /\ tree' = [tree EXCEPT !.nodes[last.ret].comment = comment]
    /\ last' = Call("setComment", "", last.ret, "returned")
    /\ UNCHANGED <<store, status, built>>

\* saveToLocalStorage as it would be if serialize used the root's own
\* children array as its queue and shifted the nodes out of it.
SaveToLocalStorageDrainsRoot(setItemThrows) ==
    /\ status = "running"
    /\ store' = IF setItemThrows THEN store ELSE serialize(tree)
    /\ tree' = [tree EXCEPT !.nodes[Root].children = <<>>]
    /\ last' = Call("saveToLocalStorage", "", Null,
                    IF setItemThrows THEN "caught" ELSE "returned")
    /\ UNCHANGED <<status, built>>

\* tree.saveToLocalStorage(storageKey); localStorage.setItem may throw (quota,
\* storage disabled), which the method catches.
SaveToLocalStorage(setItemThrows) ==
    /\ status = "running"
    /\ store' = IF setItemThrows THEN store ELSE serialize(tree)
    /\ last' = Call("saveToLocalStorage", "", Null,
                    IF setItemThrows THEN "caught" ELSE "returned")
    /\ UNCHANGED <<tree, status, built>>

\* A call that replaces `tree` by what it returns, leaves it alone when it
\* throws, and stops the script when it never returns.
Assign(op, text, r) ==
    /\ tree' = IF r.outcome = "returned" THEN r.tree ELSE tree
    /\ status' = IF r.outcome = "hangs" THEN "hung" ELSE "running"
    /\ last' = Call(op, text.kind, Null, r.outcome)
    /\ built' = IF r.outcome = "returned" THEN Len(r.tree.nodes) = 1 ELSE built

\* tree = RepertoireTree.loadFromLocalStorage(storageKey)
LoadFromLocalStorage ==
    /\ status = "running"
    /\ Assign("loadFromLocalStorage", store, loadFromLocalStorage(store, InitialRootFen))
    /\ UNCHANGED store

\* tree = RepertoireTree.deserialize(tree.serialize()), or deserialize of a
\* text from elsewhere.
Deserialize(jsonString) ==
    /\ status = "running"
    /\ Assign("deserialize", jsonString, deserialize(jsonString, InitialRootFen))
    /\ UNCHANGED store

\* Another writer sets the storage key.
ForeignWrite(text) ==
    /\ status = "running"
    /\ store' = text
    /\ last' = Call("foreignWrite", "", Null, "returned")
    /\ UNCHANGED <<tree, status, built>>

\* The calls that shape the tree in memory, for trees of up to `limit` nodes.
NextWithin(limit) ==
    \/ \E parentFen \in Keys, newFen \in Keys, move \in Moves :
          AddMoveWithin(limit, parentFen, newFen, move)
    \/ \E jsonString \in MalformedTexts \cup {serialize(tree)} : Deserialize(jsonString)

Next == NextWithin(MaxNodes)

\* The calls that go through localStorage.
NextStore ==
    \/ \E setItemThrows \in BOOLEAN : SaveToLocalStorage(setItemThrows)
    \/ LoadFromLocalStorage
    \/ \E text \in ForeignTexts : ForeignWrite(text)

\* The shape of the tree in memory: addMove and deserialize.  Comments have
\* no part in it: no method reads one except to copy it.
Spec == Init /\ [][Next]_vars

\* The same with room for one node more: a root, two lines, and a second
\* node on one of them.
SpecDeep == Init /\ [][NextWithin(MaxNodes + 1)]_vars

\* The tree in memory with its annotations: addMove, comments, deserialize.
SpecAnnotated ==
    Init /\ [][Next \/ \E comment \in Comments : SetComment(comment)]_vars

\* The tree as it goes through localStorage: addMove, save, load, and the
\* other writer.
SpecStore ==
    Init /\ [][(\E parentFen \in Keys, newFen \in Keys, move \in Moves :
                  AddMove(parentFen, newFen, move)) \/ NextStore]_vars

\* ------------------------------------------------------------ the claims
\* Move sequences, up to one label longer than the deepest line possible.
Paths == UNION {[1..n -> Moves] : n \in 0..MaxNodes}

NodeIds(t) == 1..Len(t.nodes)

\* Some position key is carried by two nodes of the tree (a transposition).
SharesKey(t) ==
    \E a, b \in NodeIds(t) : a # b /\ t.nodes[a].fen = t.nodes[b].fen

\* deserialize(serialize(t), t.root.positionKey)
RoundTrip(t) == deserialize(serialize(t), t.nodes[Root].fen)

\* Every move path that resolves in t resolves in u, to a node with the same
\* position key.
SamePathsAndKeys(t, u) ==
    \A p \in Paths :
        LET n == findNodeByMoves(t, p)
            m == findNodeByMoves(u, p)
        IN  /\ (n = Null) <=> (m = Null)
            /\ n # Null => u.nodes[m].fen = t.nodes[n].fen

\* C1: a tree in which no two nodes share a position key survives
\* deserialize(serialize(t), root key): the call returns, the root key is
\* the same, and every move path that resolves in the tree resolves in the
\* result to a node with the same key, comment and labels.
RoundTripWithoutTranspositions ==
    (status = "running" /\ built /\ ~SharesKey(tree)) =>
        LET r == RoundTrip(tree)
        IN  /\ r.outcome = "returned"
            /\ r.tree.nodes[Root].fen = tree.nodes[Root].fen
            /\ \A p \in Paths :
                  LET n == findNodeByMoves(tree, p)
                      m == findNodeByMoves(r.tree, p)
                  IN  n # Null =>
                        /\ m # Null
                        /\ r.tree.nodes[m].fen = tree.nodes[n].fen
                        /\ r.tree.nodes[m].comment = tree.nodes[n].comment
                        /\ r.tree.nodes[m].labels = tree.nodes[n].labels

\* A tree of three keys, a line two moves deep and a comment at its end, as
\* deserialize returned it.
RoundTripWithoutTranspositionsWitness ==
    /\ last.op = "deserialize" /\ last.outcome = "returned"
    /\ Len(tree.nodes) = MaxNodes
    /\ ~SharesKey(tree)
    /\ \E p \in Paths :
          /\ Len(p) = 2
          /\ findNodeByMoves(tree, p) # Null
          /\ tree.nodes[findNodeByMoves(tree, p)].comment = "c"

\* C2: a tree in which two move paths reach the same position key survives
\* deserialize(serialize(t), root key): the call returns a tree with the
\* same resolvable move paths, each leading to a node with the same key.
RoundTripWithTranspositions ==
    (status = "running" /\ built /\ SharesKey(tree)) =>
        LET r == RoundTrip(tree)
        IN  /\ r.outcome = "returned"
            /\ SamePathsAndKeys(tree, r.tree)

\* C3: no node has two children with the same move label.
SiblingUniqueness ==
    \A n \in NodeIds(tree) :
        LET cs == tree.nodes[n].children
        IN  \A i, j \in 1..Len(cs) :
                i # j => tree.nodes[cs[i]].move # tree.nodes[cs[j]].move

\* C4: in every reachable tree and for every (p, k, m) with p in the index,
\* addMove(p, k, m) called twice in a row returns the same node both times,
\* and the second call changes neither the number of children of the node
\* the first call attached to nor the number of nodes.
IdempotentInsertion ==
    status = "running" =>
        \A p \in DOMAIN tree.nodeMap, k \in Keys, m \in Moves :
            LET attachedTo == tree.nodeMap[p]
                first == addMove(tree, p, k, m)
                second == addMove(first.tree, p, k, m)
            IN  /\ second.ret = first.ret
                /\ Len(second.tree.nodes[attachedTo].children)
                     = Len(first.tree.nodes[attachedTo].children)
                /\ Len(second.tree.nodes) = Len(first.tree.nodes)

\* C5: deserialize of the empty string, or of a text that does not parse as
\* a sequence of records, returns a tree of a root node alone for the
\* expected root key and raises nothing.
EmptyInputSafety ==
    (last.op = "deserialize" /\ last.text \in {t.kind : t \in MalformedTexts}) =>
        /\ last.outcome = "returned"
        /\ tree = RepertoireTree(InitialRootFen)

\* C6: loadFromLocalStorage returns, whatever localStorage holds, a tree
\* whose root has the expected root key and the move "root"; when the key is
\* absent or deserialize fails, the tree has only the root.
LoadAlwaysUsable ==
    last.op = "loadFromLocalStorage" =>
        /\ status = "running"
        /\ last.outcome = "returned"
        /\ tree.nodes[Root].fen = InitialRootFen
        /\ tree.nodes[Root].move = RootMove
        /\ store \in ForeignTexts \cup {JsAbsent} => tree = RepertoireTree(InitialRootFen)

\* C7: addMove with a parentFen the index does not hold returns null and
\* leaves nodes and index as they were.
UnknownParent ==
    status = "running" =>
        \A p \in Keys \ DOMAIN tree.nodeMap, k \in Keys, m \in Moves :
            LET r == addMove(tree, p, k, m)
            IN  r.ret = Null /\ r.tree = tree

\* A tree of several nodes on which addMove has just returned null, with a
\* key the index does not hold.
UnknownParentWitness ==
    /\ last.op = "addMove" /\ last.ret = Null
    /\ Len(tree.nodes) >= 3
    /\ Keys \ DOMAIN tree.nodeMap # {}

\* The child of p's node with move m, when its key differs from k.
ConflictingChild(t, p, k, m) ==
    LET existingNode == findChildByMove(t.nodes, t.nodeMap[p], m)
    IN  IF existingNode # Null /\ t.nodes[existingNode].fen # k
        THEN existingNode ELSE Null

\* C8: when the parent found for parentFen already has a child with the move
\* and that child's key differs from newFen, addMove returns that child and
\* changes no node and no index entry.
LabelKeyConflictKeepsOld ==
    status = "running" =>
        \A p \in DOMAIN tree.nodeMap, k \in Keys, m \in Moves :
            ConflictingChild(tree, p, k, m) # Null =>
                LET r == addMove(tree, p, k, m)
                IN  r.ret = ConflictingChild(tree, p, k, m) /\ r.tree = tree

\* addMove has just returned a child that conflicts with some other key, and
\* that key has no index entry.
LabelKeyConflictKeepsOldWitness ==
    /\ last.op = "addMove" /\ last.ret # Null
    /\ \E p \in DOMAIN tree.nodeMap, k \in Keys \ DOMAIN tree.nodeMap, m \in Moves :
          ConflictingChild(tree, p, k, m) = last.ret

\* C9: when addMove creates a node for a position key K that an earlier
\* node already has, the index maps K to the new node, and every move path
\* that led to an earlier node with key K still leads to that node, which
\* is another node than the new one and still has key K; in a tree made by
\* addMove alone the new node has a move path of its own.
TranspositionOnInsertion ==
    status = "running" =>
        \A p \in DOMAIN tree.nodeMap, k \in Keys, m \in Moves :
            LET r == addMove(tree, p, k, m)
                newNode == Len(tree.nodes) + 1
            IN  (Len(r.tree.nodes) = newNode
                 /\ \E n \in NodeIds(tree) : tree.nodes[n].fen = k) =>
                    /\ r.ret = newNode
                    /\ r.tree.nodes[newNode].fen = k
                    /\ findNodeByFen(r.tree, k) = newNode
                    /\ \A q \in Paths :
                          LET n == findNodeByMoves(tree, q)
                          IN  (n # Null /\ tree.nodes[n].fen = k) =>
                                /\ findNodeByMoves(r.tree, q) = n
                                /\ n # newNode
                                /\ r.tree.nodes[n].fen = k
                    /\ built =>
                          /\ \E q \in Paths : findNodeByMoves(tree, q) = tree.nodeMap[p]
                          /\ findChildByMove(r.tree.nodes, tree.nodeMap[p], m) = newNode

\* Two nodes below the root with the same key, on different move paths, the
\* later one just created by addMove and holding the index entry.
TranspositionOnInsertionWitness ==
    /\ last.op = "addMove" /\ built
    /\ last.ret = Len(tree.nodes)
    /\ \E n \in NodeIds(tree) \ {Root, last.ret} :
          /\ tree.nodes[n].fen = tree.nodes[last.ret].fen
          /\ findNodeByFen(tree, tree.nodes[n].fen) = last.ret
          /\ \E q \in Paths : findNodeByMoves(tree, q) = n
          /\ \E q \in Paths : findNodeByMoves(tree, q) = last.ret

\* C10: findNodeByMoves([]) is the root; findNodeByMoves(p) is the child,
\* with p's last label, of the node p's first labels lead to, and absent
\* when they lead to no node or that node has no such child; a path one
\* label longer than a leaf's path is absent.
PathLookupExactness ==
    status = "running" =>
        /\ findNodeByMoves(tree, <<>>) = Root
        /\ \A p \in Paths : Len(p) > 0 =>
              LET prev == findNodeByMoves(tree, SubSeq(p, 1, Len(p) - 1))
                  n == findNodeByMoves(tree, p)
              IN  /\ n = IF prev = Null THEN Null
                         ELSE findChildByMove(tree.nodes, prev, p[Len(p)])
                  /\ n # Null =>
                        /\ n \in SeqToSet(tree.nodes[prev].children)
                        /\ tree.nodes[n].move = p[Len(p)]
        /\ \A p \in Paths : Len(p) < MaxNodes =>
              LET n == findNodeByMoves(tree, p)
              IN  (n # Null /\ tree.nodes[n].children = <<>>) =>
                      \A m \in Moves : findNodeByMoves(tree, Append(p, m)) = Null

\* A line as deep as the bound allows: its last node is a leaf.
PathLookupExactnessWitness ==
    /\ last.op = "addMove"
    /\ \E p \in Paths :
          /\ Len(p) = MaxNodes - 1
          /\ findNodeByMoves(tree, p) # Null
          /\ tree.nodes[findNodeByMoves(tree, p)].children = <<>>

\* The move labels of the children of node n, in list order.
ChildMoves(t, n) ==
    [i \in 1..Len(t.nodes[n].children) |-> t.nodes[t.nodes[n].children[i]].move]

\* C11: for every tree built by addMove and every node of it (named by its
\* move path), in the tree that deserialize(serialize(t), root key) returns
\* that path leads to a node whose children carry the same move labels in
\* the same order.  (That the call returns at all is C12.)
ChildOrderPreserved ==
    (status = "running" /\ built) =>
        LET r == RoundTrip(tree)
        IN  r.outcome = "returned" =>
              \A p \in Paths :
                  LET n == findNodeByMoves(tree, p)
                      m == findNodeByMoves(r.tree, p)
                  IN  n # Null =>
                        /\ m # Null
                        /\ ChildMoves(r.tree, m) = ChildMoves(tree, n)

\* C12: every operation runs to completion: for every tree built by addMove
\* (a new node's key may be the root's or an ancestor's), serialize and
\* deserialize(serialize(t), root key) end and a tree is returned; no call
\* made on a reachable tree leaves the script waiting for ever.
EveryOperationCompletes ==
    /\ status # "hung"
    /\ (status = "running" /\ built) => RoundTrip(tree).outcome = "returned"

\* C13: saving never alters the tree: a call of saveToLocalStorage, whether
\* localStorage.setItem succeeds or throws, leaves the root, every node's
\* key, move, comment, labels, parent and children, and the index as they
\* were, and returns to its caller (a failed write is caught inside).
SavingLeavesTree ==
    [][last'.op = "saveToLocalStorage" =>
          /\ tree' = tree
          /\ status' = "running"
          /\ last'.outcome \in {"returned", "caught"}
          /\ last'.outcome = "caught" => store' = store]_vars

\* A full tree after a save whose write failed: localStorage still holds an
\* earlier text, which is not the tree's.
SavingLeavesTreeWitness ==
    /\ last.op = "saveToLocalStorage" /\ last.outcome = "caught"
    /\ Len(tree.nodes) = MaxNodes
    /\ store.kind = "array"
    /\ store # serialize(tree)

\* Some record of recs has the move "root" and the key k.
HasRootRecord(recs, k) ==
    \E i \in 1..Len(recs) : recs[i].move = RootMove /\ recs[i].fen = k

\* C14: when the parsed records hold no record with the move "root" and the
\* expected root key, or there are no records, deserialize returns a tree
\* of a root node alone with the expected key, its index holding that key
\* alone, and nothing of the input in it: so for the text a load finds in
\* localStorage, and for the serialized form of any tree read with another
\* root key than its own.
RootMismatch ==
    /\ (last.op = "loadFromLocalStorage" /\ store.kind = "array"
        /\ ~HasRootRecord(store.recs, InitialRootFen)) =>
            /\ last.outcome = "returned"
            /\ tree = RepertoireTree(InitialRootFen)
    /\ status = "running" =>
          \A k \in Keys :
              /\ deserialize(JSONstringify(<<>>), k) = Returned(RepertoireTree(k))
              /\ ~HasRootRecord(SimplifiedNodes(tree), k) =>
                    deserialize(serialize(tree), k) = Returned(RepertoireTree(k))

\* A load has just read records that hold a root record of another position
\* and none of the expected one.
RootMismatchWitness ==
    /\ last.op = "loadFromLocalStorage"
    /\ store.kind = "array"
    /\ ~HasRootRecord(store.recs, InitialRootFen)
    /\ \E k \in Keys : HasRootRecord(store.recs, k)
    /\ tree = RepertoireTree(InitialRootFen)

RECURSIVE BreadthFirst(_, _)
\* The nodes below and including those of `queue`, level by level, the
\* children of a node in list order (for a structure without a cycle).
BreadthFirst(nodes, queue) ==
    IF queue = <<>> THEN <<>>
    ELSE <<Head(queue)>> \o BreadthFirst(nodes, Tail(queue) \o nodes[Head(queue)].children)

\* C15: for every tree built by addMove (two nodes under different parents
\* may have the same key and the same move), serialize emits one record
\* for each node reachable from the root, in breadth-first order with
\* siblings in insertion order; a record carries its node's key, move,
\* comment and labels and its parent's key and move, null for the root.
SerializeOneRecordPerNode ==
    (status = "running" /\ built) =>
        LET order == BreadthFirst(tree.nodes, <<Root>>)
            recs == SimplifiedNodes(tree)
        IN  /\ SeqToSet(order) = NodeIds(tree)
            /\ Len(recs) = Len(order)
            /\ \A i \in 1..Len(recs) :
                  i <= Len(order) =>
                    LET node == tree.nodes[order[i]]
                    IN  /\ recs[i].fen = node.fen
                        /\ recs[i].move = node.move
                        /\ recs[i].comment = node.comment
                        /\ recs[i].labels = node.labels
                        /\ recs[i].parentFen =
                             IF order[i] = Root THEN JsNull
                             ELSE tree.nodes[node.parent].fen
                        /\ recs[i].parentMove =
                             IF order[i] = Root THEN JsNull
                             ELSE tree.nodes[node.parent].move

\* The places in recs of the records with key k.
RecordsOf(recs, k) == {i \in 1..Len(recs) : recs[i].fen = k}

MaxOf(S) == CHOOSE x \in S : \A y \in S : y <= x

\* The keys, other than the root's, that two or more records of recs have.
RepeatedKeys(recs, rootFen) ==
    {k \in Keys \ {rootFen} : Cardinality(RecordsOf(recs, k)) >= 2}

\* The node made for key k carries the comment and labels of record i: in
\* the temporary index right after the creation loop, and in the tree
\* deserialize returns, where no other node than the root's may have that key.
MaterializedFrom(recs, rootFen, k, i) ==
    LET created == CreateLoop(RepertoireTree(rootFen), recs)
        r == deserialize(JSONstringify(recs), rootFen)
    IN  /\ k \in DOMAIN created.nodeMap
        /\ created.nodes[created.nodeMap[k]].comment = recs[i].comment
        /\ created.nodes[created.nodeMap[k]].labels = recs[i].labels
        /\ r.outcome = "returned" =>
              \A n \in NodeIds(r.tree) :
                  r.tree.nodes[n].fen = k =>
                      /\ r.tree.nodes[n].comment = recs[i].comment
                      /\ r.tree.nodes[n].labels = recs[i].labels

\* C16 as claimed: when two non-root records given to deserialize have the
\* same position key, the node made for that key carries the comment and
\* labels of the later record.
LastWriteWins ==
    (status = "running" /\ built) =>
        LET recs == SimplifiedNodes(tree)
        IN  \A k \in RepeatedKeys(recs, InitialRootFen) :
                MaterializedFrom(recs, InitialRootFen, k, MaxOf(RecordsOf(recs, k)))

\* C16 as amended: when two non-root records given to deserialize have the
\* same position key, other than the root's, the node made for that key
\* carries the comment and labels of the earlier record; the later record
\* makes no node and leaves the temporary index entry as it is.
FirstWriteWins ==
    (status = "running" /\ built) =>
        LET recs == SimplifiedNodes(tree)
            created == CreateLoop(RepertoireTree(InitialRootFen), recs)
        IN  \A k \in RepeatedKeys(recs, InitialRootFen) :
                /\ MaterializedFrom(recs, InitialRootFen, k, MinOf(RecordsOf(recs, k)))
                /\ Cardinality({n \in NodeIds(created) : created.nodes[n].fen = k}) = 1

\* Two nodes with one key and different comments, the commented one first,
\* in a tree whose serialized form deserialize reads and returns a tree for.
FirstWriteWinsWitness ==
    /\ status = "running" /\ built
    /\ LET recs == SimplifiedNodes(tree)
       IN  \E k \in RepeatedKeys(recs, InitialRootFen) :
              /\ recs[MinOf(RecordsOf(recs, k))].comment = "c"
              /\ recs[MaxOf(RecordsOf(recs, k))].comment = ""
              /\ RoundTrip(tree).outcome = "returned"

\* C17: in every tree that addMove calls and deserialize leave, each index
\* entry key -> node has a node with that position key that is reachable
\* from the root through children lists, and the keys of the index are
\* exactly the position keys of the nodes reachable from the root.
IndexConsistency ==
    /\ \A k \in DOMAIN tree.nodeMap :
          /\ tree.nodeMap[k] \in NodeIds(tree)
          /\ tree.nodes[tree.nodeMap[k]].fen = k
          /\ tree.nodeMap[k] \in Reachable(tree.nodes)
    /\ DOMAIN tree.nodeMap = {tree.nodes[n].fen : n \in Reachable(tree.nodes)}

\* A tree of as many keys as nodes that deserialize has just returned, and
\* whose index the final loop filled.
IndexConsistencyWitness ==
    /\ last.op = "deserialize" /\ last.outcome = "returned"
    /\ Len(tree.nodes) = MaxNodes
    /\ Cardinality(DOMAIN tree.nodeMap) = MaxNodes

\* The root of t has the move "root", no parent and the key k.
IsSentinelRoot(t, k) ==
    /\ t.nodes[Root].move = RootMove
    /\ t.nodes[Root].parent = Null
    /\ t.nodes[Root].fen = k

Occurrences(t, n) ==
    Cardinality({pi \in NodeIds(t) \X (1..MaxNodes + 1) :
                    /\ pi[2] <= Len(t.nodes[pi[1]].children)
                    /\ t.nodes[pi[1]].children[pi[2]] = n})

\* C19: what is reachable from the root is a tree: every node but the root
\* appears in exactly one children list, exactly once, the list is that
\* of the node its parent reference names, the root appears in none, and
\* no node is its own descendant.
TreeShape ==
    LET live == Reachable(tree.nodes)
    IN  /\ Occurrences(tree, Root) = 0
        /\ \A n \in live \ {Root} :
              /\ Occurrences(tree, n) = 1
              /\ tree.nodes[n].parent \in live
              /\ n \in SeqToSet(tree.nodes[tree.nodes[n].parent].children)
        /\ \A n \in live : n \notin Descendants(tree.nodes, n)

\* C20: when parentFen is in the index and its node has no child with the
\* move, addMove makes exactly one node, with the key newFen, the move, an
\* empty comment, no labels and that node as parent, appends it as the last
\* child of that node, sets the index entry of newFen to it and returns it;
\* every other children list, every other index entry and every field of
\* every node there was stay as they were.
NewInsertionEffect ==
    status = "running" =>
        \A p \in DOMAIN tree.nodeMap, k \in Keys, m \in Moves :
            LET parentNode == tree.nodeMap[p]
                r == addMove(tree, p, k, m)
                newNode == r.ret
            IN  (\A i \in 1..Len(tree.nodes[parentNode].children) :
                    tree.nodes[tree.nodes[parentNode].children[i]].move # m) =>
                    /\ Len(r.tree.nodes) = Len(tree.nodes) + 1
                    /\ newNode \in NodeIds(r.tree) \ NodeIds(tree)
                    /\ r.tree.nodes[newNode] =
                         [fen |-> k, move |-> m, parent |-> parentNode,
                          children |-> <<>>, comment |-> "", labels |-> <<>>]
                    /\ r.tree.nodes[parentNode].children =
                         Append(tree.nodes[parentNode].children, newNode)
                    /\ \A n \in NodeIds(tree) :
                          /\ n # parentNode =>
                                r.tree.nodes[n].children = tree.nodes[n].children
                          /\ r.tree.nodes[n].fen = tree.nodes[n].fen
                          /\ r.tree.nodes[n].move = tree.nodes[n].move
                          /\ r.tree.nodes[n].parent = tree.nodes[n].parent
                          /\ r.tree.nodes[n].comment = tree.nodes[n].comment
                          /\ r.tree.nodes[n].labels = tree.nodes[n].labels
                    /\ DOMAIN r.tree.nodeMap = DOMAIN tree.nodeMap \cup {k}
                    /\ r.tree.nodeMap[k] = newNode
                    /\ \A j \in DOMAIN tree.nodeMap \ {k} :
                          r.tree.nodeMap[j] = tree.nodeMap[j]

\* addMove has just made a node: the second child of its parent, with a key
\* whose index entry was another node's until then.
NewInsertionEffectWitness ==
    /\ last.op = "addMove" /\ last.ret = Len(tree.nodes)
    /\ last.ret # Root
    /\ LET parentNode == tree.nodes[last.ret].parent
       IN  /\ Len(tree.nodes[parentNode].children) = 2
           /\ tree.nodes[parentNode].children[2] = last.ret
    /\ \E n \in NodeIds(tree) \ {last.ret} : tree.nodes[n].fen = tree.nodes[last.ret].fen
    /\ tree.nodeMap[tree.nodes[last.ret].fen] = last.ret

\* C21: along addMove calls on one tree, nodes are never removed, moved or
\* relabelled: a move path that leads to a node before a call leads to the
\* same node after it, with the same position key and the same move, and
\* the number of nodes does not decrease.  Holding for each call, it holds
\* from any state to every later one of the same tree.  (A call that
\* leaves the tree as it was has nothing to show.)
InsertOnlyGrowth ==
    [][(last'.op = "addMove" /\ tree' # tree) =>
          /\ Len(tree'.nodes) >= Len(tree.nodes)
          /\ \A p \in Paths :
                LET n == findNodeByMoves(tree, p)
                IN  n # Null =>
                      /\ findNodeByMoves(tree', p) = n
                      /\ tree'.nodes[n].fen = tree.nodes[n].fen
                      /\ tree'.nodes[n].move = tree.nodes[n].move]_vars

\* addMove has just made the last node the bound allows, a second child of
\* the root, in a tree that already had a line below the root's first child.
InsertOnlyGrowthWitness ==
    /\ last.op = "addMove" /\ last.ret = MaxNodes
    /\ Len(tree.nodes) = MaxNodes
    /\ tree.nodes[Root].children = <<2, MaxNodes>>

====
